---- MODULE Spec2Model ----
(***************************************************************************)
(* PriceList Auto Updater (main.py): the price text normalizer, the store  *)
(* adapters' search_price, the Google Sheet operations and the sequential  *)
(* update_all run, as a state machine.                                     *)
(*                                                                         *)
(* A text is a sequence of one-character strings.  Characters that are not *)
(* ASCII are written by name: "NBSP" (U+00A0), "RLM" (U+200F), "LRM"       *)
(* (U+200E), "NNBSP" (U+202F) and the Arabic letters "ar_jeem", "ar_meem", *)
(* "ar_noon", "ar_yeh", "ar_heh", "ar_reh", "ar_alef", "ar_lam", "ar_dal". *)
(* A float is kept as an integer count of 10^-FracDigits units.            *)
(* Optional[x] is <<>> (None) or <<x>>.                                    *)
(***************************************************************************)
EXTENDS Integers, Sequences, FiniteSets, TLC

VARIABLES
    env,            \* GOOGLE_APPLICATION_CREDENTIALS: "absent", "valid" (names an existing file), "invalid"
    pc,             \* position of main / update_all
    sheetExists,    \* a spreadsheet named SHEET_NAME exists
    sheet,          \* the first worksheet: rows of cells, up to the last row holding data
    sheet0,         \* the worksheet as the last set-up step found it; from the launch on, the
                    \* worksheet as the repricing loop found it
    products,       \* update_all's local `products`
    fromSheet,      \* products were read from column 1 (ensure_products returned `existing`)
    idx,            \* update_all's loop index (the row of the current product)
    k,              \* position in ADAPTERS inside fetch_prices_for_product
    page,           \* fetch_prices_for_product's local `page` (0: none)
    prices,         \* fetch_prices_for_product's local `prices`
    exc,            \* the exception that is propagating: "none", or the call that raised it
    openPages,      \* the browser pages that are open, named by the row they were opened for
    browserOpen,
    contextOpen,
    failed,         \* sellers whose search_price caught an exception, for the current product
    lastTexts,      \* the candidate texts the last search_price extracted
    written,        \* rows write_prices_block has updated in this run
    errored,        \* rows whose per-product pipeline raised in this run
    calls,          \* the worksheet write calls the step just taken has issued, in order
    opened,         \* gc.open / gc.create has been called
    navigated,      \* a page.goto has been issued
    done,           \* the completion message has been printed
    price_map,      \* update_all's local `price_map`
    raw,            \* normalizer check: the number and the currency token a text is written from
    text,           \* normalizer check: the raw text
    parsed,         \* normalizer check: parse_price_number(text)
    ppc             \* normalizer check: position

runVars == <<env, pc, sheetExists, sheet, sheet0, products, fromSheet, idx, k,
             page, prices, price_map, exc, openPages, browserOpen, contextOpen, failed, lastTexts,
             written, errored, calls, opened, navigated, done>>
parseVars == <<raw, text, parsed, ppc>>
vars == <<runVars, parseVars>>

\* ---------------------------------------------------------------- bounds
\* Number of stores of STORE_COLUMNS / ADAPTERS that are modelled (the first NumStores).
NumStores == 2
\* Digits kept after the decimal point of a float.
FracDigits == 1
\* Most comma-separated groups after the first in a generated number.
MaxGroups == 1

\* ---------------------------------------------------------------- Optional
None == <<>>
Some(v) == <<v>>

\* ---------------------------------------------------------------- constants
SHEET_NAME == "pricelist"

AllStoreNames ==
    <<"Jumia", "2B", "BTECH", "Rizkalla", "Carrefour", "Vodafone Shop", "Etisalat",
      "Raneen", "Raya Shop", "Shaheen Center", "Noon">>

STORE_COLUMNS == SubSeq(AllStoreNames, 1, NumStores)
SUMMARY_COLUMNS == <<"Cheapest Store", "Cheapest Price">>
ALL_COLUMNS == <<"Product">> \o STORE_COLUMNS \o SUMMARY_COLUMNS

\* ADAPTERS, each known by its seller attribute, in registry order.
ADAPTERS == SubSeq(AllStoreNames, 1, NumStores)

default_tv_products == <<"Samsung 43 inch Crystal UHD 4K TV">>
default_phone_products == <<"Samsung Galaxy A15 6GB 128GB">>
default_ac_products == <<"Carrier Split Air Conditioner 1.5 HP Cool">>

default_products == default_tv_products \o default_phone_products \o default_ac_products

SPACE_VARIANTS == <<"NBSP", "RLM", "LRM", "NNBSP">>

\* The alternatives of the currency pattern, in the order the pattern lists them.
CURRENCY_TOKENS ==
    << <<"E", "G", "P">>,
       <<"ar_jeem", ".", "ar_meem">>,
       <<"ar_jeem", "ar_noon", "ar_yeh", "ar_heh">>,
       <<"ar_reh", "ar_yeh", "ar_alef", "ar_lam">>,
       <<"ar_dal", "ar_reh", "ar_heh", "ar_meem">>,
       <<"S", "A", "R">>,
       <<"A", "E", "D">>,
       <<"U", "S", "D">>,
       <<"E", "G", "P", ".">> >>

\* ---------------------------------------------------------------- text helpers
Digits == <<"0", "1", "2", "3", "4", "5", "6", "7", "8", "9">>
IsDigit(c) == \E d \in 1..10 : Digits[d] = c
DigitValue(c) == (CHOOSE d \in 1..10 : Digits[d] = c) - 1

LowerLetters == <<"a", "d", "e", "g", "p", "r", "s", "u">>
UpperLetters == <<"A", "D", "E", "G", "P", "R", "S", "U">>
\* re.I: letters compare without regard to case.
CaseFold(c) ==
    IF \E i \in 1..Len(LowerLetters) : LowerLetters[i] = c
    THEN UpperLetters[CHOOSE i \in 1..Len(LowerLetters) : LowerLetters[i] = c]
    ELSE c

RECURSIVE Pow10(_)
Pow10(n) == IF n = 0 THEN 1 ELSE 10 * Pow10(n - 1)
Scale == Pow10(FracDigits)

RECURSIVE DigitsToInt(_)
DigitsToInt(ds) ==
    IF ds = <<>> THEN 0
    ELSE 10 * DigitsToInt(SubSeq(ds, 1, Len(ds) - 1)) + DigitValue(ds[Len(ds)])

\* str.replace(old, new) for a one-character old; new is a text (possibly empty).
RECURSIVE ReplaceChar(_, _, _)
ReplaceChar(t, old, new) ==
    IF t = <<>> THEN <<>>
    ELSE (IF Head(t) = old THEN new ELSE <<Head(t)>>) \o ReplaceChar(Tail(t), old, new)

\* ---------------------------------------------------------------- parse_price_number
RECURSIVE ReplaceSpaceVariants(_, _)
ReplaceSpaceVariants(t, i) ==
    IF i > Len(SPACE_VARIANTS) THEN t
    ELSE ReplaceSpaceVariants(ReplaceChar(t, SPACE_VARIANTS[i], <<" ">>), i + 1)

KeepCommas(t) == t
RemoveCommas(t) == ReplaceChar(t, ",", <<>>)

MatchesAt(t, i, tok) ==
    /\ i + Len(tok) - 1 <= Len(t)
    /\ \A j \in 1..Len(tok) : CaseFold(t[i + j - 1]) = CaseFold(tok[j])

\* re.sub(pattern, "", t, flags=re.I): leftmost matches, the first alternative that
\* matches at a position is taken, the scan resumes after the match.
RECURSIVE RemoveCurrencyFrom(_, _)
RemoveCurrencyFrom(t, i) ==
    IF i > Len(t) THEN <<>>
    ELSE LET hits == {a \in 1..Len(CURRENCY_TOKENS) : MatchesAt(t, i, CURRENCY_TOKENS[a])}
         IN  IF hits # {}
             THEN LET a == CHOOSE x \in hits : \A y \in hits : x <= y
                  IN  RemoveCurrencyFrom(t, i + Len(CURRENCY_TOKENS[a]))
             ELSE <<t[i]>> \o RemoveCurrencyFrom(t, i + 1)
RemoveCurrency(t) == RemoveCurrencyFrom(t, 1)

\* Index of the last character of the run of digits that starts at i.
RECURSIVE DigitRunEnd(_, _)
DigitRunEnd(t, i) ==
    IF i + 1 <= Len(t) /\ IsDigit(t[i + 1]) THEN DigitRunEnd(t, i + 1) ELSE i

\* re.search(r"(\d+(?:\.\d+)?)", t): None, or the integer and fraction digits of the
\* first match.
SearchNumber(t) ==
    LET starts == {i \in 1..Len(t) : IsDigit(t[i])}
    IN  IF starts = {} THEN None
        ELSE LET s == CHOOSE x \in starts : \A y \in starts : x <= y
                 e == DigitRunEnd(t, s)
                 hasFrac == e + 2 <= Len(t) /\ t[e + 1] = "." /\ IsDigit(t[e + 2])
             IN  Some([int  |-> SubSeq(t, s, e),
                       frac |-> IF hasFrac THEN SubSeq(t, e + 2, DigitRunEnd(t, e + 2))
                                ELSE <<>>])

\* float(m.group(1)), in units of 10^-FracDigits (digits beyond FracDigits are dropped).
ToFloat(m) ==
    LET f == IF Len(m.frac) > FracDigits THEN SubSeq(m.frac, 1, FracDigits) ELSE m.frac
    IN  DigitsToInt(m.int) * Scale + DigitsToInt(f) * Pow10(FracDigits - Len(f))

parse_price_number(t) ==
    IF t = <<>> THEN None
    ELSE LET t1 == ReplaceSpaceVariants(t, 1)
             t2 == RemoveCommas(t1)
             t3 == RemoveCurrency(t2)
             m  == SearchNumber(t3)
         IN  IF m = None THEN None ELSE Some(ToFloat(m[1]))

\* ---------------------------------------------------------------- search_price
\* [parse_price_number(t) for t in texts]
RECURSIVE ParseAll(_)
ParseAll(texts) ==
    IF texts = <<>> THEN <<>>
    ELSE <<parse_price_number(Head(texts))>> \o ParseAll(Tail(texts))

KeepPriceNotNone(p) == p # None
\* `if p and p > 0`
KeepPrice(p) == p # None /\ p[1] # 0 /\ p[1] > 0

\* [p for p in prices if p and p > 0]
RECURSIVE ValidPrices(_)
ValidPrices(ps) ==
    IF ps = <<>> THEN <<>>
    ELSE (IF KeepPrice(Head(ps)) THEN <<Head(ps)[1]>> ELSE <<>>) \o ValidPrices(Tail(ps))

\* min(prices) over a non-empty list of numbers
RECURSIVE MinOf(_)
MinOf(ns) ==
    IF Len(ns) = 1 THEN ns[1]
    ELSE LET m == MinOf(Tail(ns)) IN IF m < Head(ns) THEN m ELSE Head(ns)

\* What happens inside search_price's try block: an exception out of page.goto,
\* page.wait_for_timeout or extract_price_candidates, or the extracted texts.
Faults == {"navigation timeout", "DOM error", "network failure"}
IsFault(outcome) == outcome.fault # "none"

\* What an awaited call comes to: a returned value, or an exception that propagates.
Returned(v) == [raised |-> FALSE, value |-> v]
Raised == [raised |-> TRUE, value |-> None]

\* search_price without its try/except.
search_price_uncaught(outcome) ==
    IF IsFault(outcome) THEN Raised
    ELSE LET ps == ValidPrices(ParseAll(outcome.texts))
         IN  Returned(IF ps # <<>> THEN Some(MinOf(ps)) ELSE None)

\* search_price: an exception in the try block is caught and None returned.
search_price(outcome) ==
    IF IsFault(outcome) THEN Returned(None)
    ELSE LET ps == ValidPrices(ParseAll(outcome.texts))
         IN  Returned(IF ps # <<>> THEN Some(MinOf(ps)) ELSE None)

\* ---------------------------------------------------------------- the worksheet
\* A cell holds nothing, a number or a string.
Blank == [kind |-> "blank", num |-> 0, str |-> ""]
Num(n) == [kind |-> "num", num |-> n, str |-> ""]
Str(s) == [kind |-> "str", num |-> 0, str |-> s]

\* value_input_option="USER_ENTERED": the empty string leaves the cell empty.
Entered(v) == IF v = Str("") THEN Blank ELSE v

\* Columns of the grid: those of ALL_COLUMNS and one to their right.
Width == Len(ALL_COLUMNS) + 1
BlankRow == [c \in 1..Width |-> Blank]
RowOf(values) == [c \in 1..Width |-> IF c <= Len(values) THEN Entered(values[c]) ELSE Blank]
StrValues(ss) == [i \in 1..Len(ss) |-> Str(ss[i])]

\* What the API returns for a cell.
Display(cell) ==
    IF cell.kind = "str" THEN cell.str
    ELSE IF cell.kind = "num" THEN ToString(cell.num)
    ELSE ""

\* The rows up to the last one that holds data.
RECURSIVE TrimRows(_)
TrimRows(sh) ==
    IF sh # <<>> /\ sh[Len(sh)] = BlankRow THEN TrimRows(SubSeq(sh, 1, Len(sh) - 1)) ELSE sh

\* ws.row_values(r): the row's values up to its last non-empty cell.
row_values(sh, r) ==
    IF r > Len(sh) THEN <<>>
    ELSE LET used == {c \in 1..Width : sh[r][c] # Blank}
             last == IF used = {} THEN 0 ELSE CHOOSE c \in used : \A d \in used : d <= c
         IN  [c \in 1..last |-> Display(sh[r][c])]

\* ws.col_values(c): the column's values up to its last non-empty cell.
col_values(sh, c) ==
    LET used == {r \in 1..Len(sh) : sh[r][c] # Blank}
        last == IF used = {} THEN 0 ELSE CHOOSE r \in used : \A q \in used : q <= r
    IN  [r \in 1..last |-> Display(sh[r][c])]

\* ws.clear()
clear(sh) == <<>>

\* ws.append_row / ws.append_rows: the rows go below the last row that holds data.
append_rows(sh, rows) == TrimRows(sh \o [i \in 1..Len(rows) |-> RowOf(rows[i])])

\* ws.update("<row,c1>:<row,c2>", [values]): one range of one row.
update(sh, rng, values) ==
    LET n    == IF rng.row > Len(sh) THEN rng.row ELSE Len(sh)
        grid == [r \in 1..n |-> IF r <= Len(sh) THEN sh[r] ELSE BlankRow]
    IN  TrimRows([grid EXCEPT ![rng.row] =
                     [c \in 1..Width |->
                         IF c >= rng.c1 /\ c <= rng.c2 /\ c - rng.c1 + 1 <= Len(values)
                         THEN Entered(values[c - rng.c1 + 1])
                         ELSE grid[rng.row][c]]])

\* ---------------------------------------------------------------- open_or_create_pricelist
\* The worksheet part of open_or_create_pricelist: the sheet it leaves and the write
\* calls it issues.
open_or_create_keeps_data(sh) ==
    IF row_values(sh, 1) # ALL_COLUMNS
    THEN [sheet |-> append_rows(sh, <<StrValues(ALL_COLUMNS)>>), calls |-> <<"append_row">>]
    ELSE [sheet |-> sh, calls |-> <<>>]

open_or_create_pricelist(sh) ==
    IF row_values(sh, 1) # ALL_COLUMNS
    THEN [sheet |-> append_rows(clear(sh), <<StrValues(ALL_COLUMNS)>>),
          calls |-> <<"clear", "append_row">>]
    ELSE [sheet |-> sh, calls |-> <<>>]

\* ---------------------------------------------------------------- ensure_products
\* [p] + [""] * (len(ALL_COLUMNS) - 1)
ProductRow(p) == [c \in 1..Len(ALL_COLUMNS) |-> IF c = 1 THEN Str(p) ELSE Str("")]

ensure_products_always_seeds(sh) ==
    [sheet    |-> append_rows(sh, [i \in 1..Len(default_products) |->
                                      ProductRow(default_products[i])]),
     products |-> default_products, calls |-> <<"append_rows">>, fromSheet |-> FALSE]

ensure_products(sh) ==
    LET col      == col_values(sh, 1)
        existing == IF Len(col) <= 1 THEN <<>> ELSE SubSeq(col, 2, Len(col))
    IN  IF existing # <<>>
        THEN [sheet |-> sh, products |-> existing, calls |-> <<>>, fromSheet |-> TRUE]
        ELSE [sheet    |-> append_rows(sh, [i \in 1..Len(default_products) |->
                                               ProductRow(default_products[i])]),
              products |-> default_products, calls |-> <<"append_rows">>, fromSheet |-> FALSE]

\* ---------------------------------------------------------------- write_prices_block
EmptyMap == [s \in {} |-> None]
\* prices_map.get(store)
Get(m, s) == IF s \in DOMAIN m THEN m[s] ELSE None
Put(m, s, v) == [x \in DOMAIN m \cup {s} |-> IF x = s THEN v ELSE m[x]]

\* [(s, prices_map.get(s)) for s in STORE_COLUMNS if prices_map.get(s) is not None]
RECURSIVE numeric_prices(_, _)
numeric_prices(m, i) ==
    IF i > Len(STORE_COLUMNS) THEN <<>>
    ELSE (IF Get(m, STORE_COLUMNS[i]) # None
          THEN << <<STORE_COLUMNS[i], Get(m, STORE_COLUMNS[i])[1]>> >>
          ELSE <<>>) \o numeric_prices(m, i + 1)

\* A minimum that keeps the last of equal elements.
RECURSIVE min_by_price_last(_)
min_by_price_last(kvs) ==
    IF Len(kvs) = 1 THEN kvs[1]
    ELSE LET m == min_by_price_last(SubSeq(kvs, 1, Len(kvs) - 1))
         IN  IF kvs[Len(kvs)][2] <= m[2] THEN kvs[Len(kvs)] ELSE m

\* min(numeric_prices, key=lambda kv: kv[1]): the first of the elements with the least key.
RECURSIVE min_by_price(_)
min_by_price(kvs) ==
    IF Len(kvs) = 1 THEN kvs[1]
    ELSE LET m == min_by_price(SubSeq(kvs, 1, Len(kvs) - 1))
         IN  IF kvs[Len(kvs)][2] < m[2] THEN kvs[Len(kvs)] ELSE m

\* The values write_prices_block writes: the store prices, then the cheapest store and price.
block_values(m) ==
    LET values == [i \in 1..Len(STORE_COLUMNS) |->
                      IF Get(m, STORE_COLUMNS[i]) = None THEN Str("")
                      ELSE Num(Get(m, STORE_COLUMNS[i])[1])]
        nps    == numeric_prices(m, 1)
        sp     == IF nps # <<>> THEN min_by_price(nps) ELSE <<>>
    IN  values \o (IF nps # <<>> THEN <<Str(sp[1]), Num(sp[2])>> ELSE <<Str(""), Str("")>>)

\* rowcol_to_a1(row_idx, start_col) + ":" + rowcol_to_a1(row_idx, end_col)
block_range_from_first_column(row_idx) ==
    [row |-> row_idx, c1 |-> 1, c2 |-> Len(STORE_COLUMNS) + Len(SUMMARY_COLUMNS)]
block_range(row_idx) ==
    [row |-> row_idx, c1 |-> 2, c2 |-> 1 + Len(STORE_COLUMNS) + Len(SUMMARY_COLUMNS)]

write_prices_block(sh, row_idx, m) == update(sh, block_range(row_idx), block_values(m))

\* ---------------------------------------------------------------- get_sheet_client
\* `if not json_path or not os.path.exists(json_path)`
credentials_missing_unset_only(e) == e = "absent"
credentials_missing(e) == e = "absent" \/ e = "invalid"

\* ---------------------------------------------------------------- the persisted sheets a run can meet
\* The candidate texts an adapter can extract from a results page.
CandidateLists ==
    { <<>>,
      << <<"E", "G", "P">>, <<"0", " ", "E", "G", "P">> >>,
      << <<"2", " ", "E", "G", "P">>, <<"0">>, <<"1">> >>,
      << <<"E", "G", "P", " ", "2", ".", "0", "0">> >> }
Outcomes == [fault : Faults, texts : {<<>>}] \cup [fault : {"none"}, texts : CandidateLists]

HeaderOnly == append_rows(<<>>, <<StrValues(ALL_COLUMNS)>>)
\* A price map of an earlier run: the first store at `a`, the last store at `b`.
OldMap(a, b) ==
    [s \in {STORE_COLUMNS[i] : i \in 1..Len(STORE_COLUMNS)} |->
        IF s = STORE_COLUMNS[1] THEN a
        ELSE IF s = STORE_COLUMNS[Len(STORE_COLUMNS)] THEN b ELSE None]
\* Two products of the user's own, priced by an earlier run.
Populated ==
    write_prices_block(
        write_prices_block(
            append_rows(HeaderOnly, <<ProductRow("Tornado 43 inch Smart TV"),
                                      ProductRow("Apple iPhone 13 128GB")>>),
            2, OldMap(Some(3 * Scale), None)),
        3, OldMap(Some(5 * Scale), Some(4 * Scale)))
\* The product of row 2 was deleted by hand; its prices and row 3 remain.
Gap == update(Populated, [row |-> 2, c1 |-> 1, c2 |-> 1], <<Str("")>>)
\* A sheet of another layout.
Legacy == append_rows(append_rows(<<>>, << <<Str("Item"), Str("Price")>> >>),
                      << <<Str("Old TV"), Num(9 * Scale)>> >>)
\* The right header with one more column to its right.
Widened == update(Populated, [row |-> 1, c1 |-> Width, c2 |-> Width], <<Str("Notes")>>)

InitialBooks ==
    { [exists |-> FALSE, sheet |-> <<>>] }
    \cup [exists : {TRUE}, sheet : {<<>>, HeaderOnly, Populated, Gap, Legacy, Widened}]

\* ---------------------------------------------------------------- the run
\* The state at the start of main(), given the environment and the persisted spreadsheet.
RunInit(e, b) ==
    /\ env = e
    /\ pc = "main"
    /\ sheetExists = b.exists
    /\ sheet = b.sheet
    /\ sheet0 = <<>>
    /\ products = <<>>
    /\ fromSheet = FALSE
    /\ idx = 0
    /\ k = 0
    /\ page = 0
    /\ prices = EmptyMap
    /\ price_map = EmptyMap
    /\ exc = "none"
    /\ openPages = {}
    /\ browserOpen = FALSE
    /\ contextOpen = FALSE
    /\ failed = {}
    /\ lastTexts = <<>>
    /\ written = {}
    /\ errored = {}
    /\ calls = <<>>
    /\ opened = FALSE
    /\ navigated = FALSE
    /\ done = FALSE

Init ==
    /\ \E e \in {"absent", "valid", "invalid"} : \E b \in InitialBooks : RunInit(e, b)
    /\ raw = <<>>
    /\ text = <<>>
    /\ parsed = None
    /\ ppc = "idle"

sheetVars == <<sheetExists, sheet, sheet0, products, fromSheet, opened>>
fetchVars == <<k, page, prices, exc, openPages, failed, lastTexts, navigated>>
browserVars == <<browserOpen, contextOpen>>
loopVars == <<idx, price_map, written, errored>>

\* main(): the fallback file, when it exists, stands in for an unset variable.
\* fallback_exists is os.path.exists("pricelistupdater-0ba613a9eaed.json").
Main ==
    /\ calls' = <<>>
    /\ pc = "main"
    /\ \E fallback_exists \in BOOLEAN :
         env' = IF env = "absent" /\ fallback_exists THEN "valid" ELSE env
    /\ pc' = "get_sheet_client"
    /\ UNCHANGED <<sheetVars, fetchVars, browserVars, loopVars, done, parseVars>>

\* update_all: gc = get_sheet_client()
GetSheetClient ==
    /\ calls' = <<>>
    /\ pc = "get_sheet_client"
    /\ pc' = IF credentials_missing(env) THEN "fatal" ELSE "open_or_create"
    /\ UNCHANGED <<env, sheetVars, fetchVars, browserVars, loopVars, done, parseVars>>

\* update_all: sh, ws = open_or_create_pricelist(gc)
OpenOrCreatePricelist ==
    /\ pc = "open_or_create"
    /\ LET r == open_or_create_pricelist(sheet)
       IN  /\ sheet' = r.sheet
           /\ calls' = r.calls
    /\ sheet0' = sheet
    /\ sheetExists' = TRUE
    /\ opened' = TRUE
    /\ pc' = "ensure_products"
    /\ UNCHANGED <<env, products, fromSheet, fetchVars,
                   browserVars, loopVars, done, parseVars>>

\* update_all: products = ensure_products(ws)
EnsureProducts ==
    /\ pc = "ensure_products"
    /\ LET r == ensure_products(sheet)
       IN  /\ sheet' = r.sheet
           /\ sheet0' = sheet
           /\ products' = r.products
           /\ fromSheet' = r.fromSheet
           /\ calls' = r.calls
    /\ pc' = "launch"
    /\ UNCHANGED <<env, sheetExists, opened, fetchVars,
                   browserVars, loopVars, done, parseVars>>

\* `for idx, product in enumerate(products, start=2)`: the next product, or the end.
LoopPc(i) == IF i - 1 <= Len(products) THEN "new_page" ELSE "close_context"

\* update_all: launch the browser, open the context, enter the loop.
LaunchBrowser ==
    /\ calls' = <<>>
    /\ pc = "launch"
    /\ browserOpen' = TRUE
    /\ contextOpen' = TRUE
    /\ idx' = 2
    /\ pc' = LoopPc(2)
    /\ sheet0' = sheet
    /\ UNCHANGED <<env, sheetExists, sheet, products, fromSheet, opened, fetchVars, price_map,
                   written, errored, done, parseVars>>

\* fetch_prices_for_product: prices = {}; page = await context.new_page()
NewPage ==
    /\ calls' = <<>>
    /\ pc = "new_page"
    /\ prices' = EmptyMap
    /\ failed' = {}
    /\ page' = idx
    /\ openPages' = openPages \cup {idx}
    /\ k' = 1
    /\ pc' = IF Len(ADAPTERS) >= 1 THEN "search_price" ELSE "finally"
    /\ UNCHANGED <<env, sheetVars, exc, lastTexts, navigated, browserVars,
                   loopVars, done, parseVars>>

\* context.new_page() raises: no page, the exception reaches update_all.
NewPageRaises ==
    /\ calls' = <<>>
    /\ pc = "new_page"
    /\ prices' = EmptyMap
    /\ failed' = {}
    /\ exc' = "new_page"
    /\ pc' = "except"
    /\ UNCHANGED <<env, sheetVars, k, page, openPages, lastTexts,
                   navigated, browserVars, loopVars, done, parseVars>>

\* fetch_prices_for_product: price = await ad.search_price(page, product); prices[ad.seller] = price
SearchPrice ==
    /\ calls' = <<>>
    /\ pc = "search_price"
    /\ \E o \in Outcomes :
         LET res == search_price(o)
         IN  /\ navigated' = TRUE
             /\ lastTexts' = o.texts
             /\ failed' = IF IsFault(o) THEN failed \cup {ADAPTERS[k]} ELSE failed
             /\ IF res.raised
                THEN /\ exc' = o.fault
                     /\ pc' = "finally"
                     /\ UNCHANGED prices
                ELSE /\ prices' = Put(prices, ADAPTERS[k], res.value)
                     /\ pc' = "delay"
                     /\ UNCHANGED exc
    /\ UNCHANGED <<env, sheetVars, k, page, openPages, browserVars, loopVars,
                   done, parseVars>>

\* fetch_prices_for_product: await page.wait_for_timeout(300), then the next adapter.
Delay ==
    /\ calls' = <<>>
    /\ pc = "delay"
    /\ lastTexts' = <<>>
    /\ IF k < Len(ADAPTERS)
       THEN k' = k + 1 /\ pc' = "search_price"
       ELSE k' = k /\ pc' = "finally"
    /\ UNCHANGED <<env, sheetVars, page, prices, exc, openPages, failed,
                   navigated, browserVars, loopVars, done, parseVars>>

\* page.wait_for_timeout(300) raises: outside search_price's try, so it leaves the loop.
DelayRaises ==
    /\ calls' = <<>>
    /\ pc = "delay"
    /\ lastTexts' = <<>>
    /\ exc' = "wait_for_timeout"
    /\ pc' = "finally"
    /\ UNCHANGED <<env, sheetVars, k, page, prices, openPages, failed,
                   navigated, browserVars, loopVars, done, parseVars>>

\* No finally clause: the page is closed only when the loop ends normally.
ClosePageOnSuccessOnly ==
    /\ calls' = <<>>
    /\ pc = "finally"
    /\ openPages' = IF exc # "none" THEN openPages ELSE openPages \ {page}
    /\ pc' = IF exc # "none" THEN "except" ELSE "write"
    /\ price_map' = IF exc # "none" THEN price_map ELSE prices
    /\ prices' = EmptyMap
    /\ failed' = {}
    /\ k' = 0
    /\ page' = 0
    /\ UNCHANGED <<env, sheetVars, exc, lastTexts, navigated, browserVars, idx,
                   written, errored, done, parseVars>>

\* fetch_prices_for_product: finally: await page.close(); then return prices, or the
\* exception goes on to update_all.  The locals of the call end with it.
ClosePage ==
    /\ calls' = <<>>
    /\ pc = "finally"
    /\ openPages' = openPages \ {page}
    /\ pc' = IF exc # "none" THEN "except" ELSE "write"
    /\ price_map' = IF exc # "none" THEN price_map ELSE prices
    /\ prices' = EmptyMap
    /\ failed' = {}
    /\ k' = 0
    /\ page' = 0
    /\ UNCHANGED <<env, sheetVars, exc, lastTexts, navigated, browserVars, idx,
                   written, errored, done, parseVars>>

\* update_all: write_prices_block(ws, idx, price_map)
WritePricesBlock ==
    /\ pc = "write"
    /\ sheet' = write_prices_block(sheet, idx, price_map)
    /\ written' = written \cup {idx}
    /\ idx' = idx + 1
    /\ pc' = LoopPc(idx + 1)
    /\ calls' = <<"update">>
    /\ UNCHANGED <<env, sheetExists, sheet0, products, fromSheet, opened, fetchVars,
                   browserVars, price_map, errored, done, parseVars>>

\* ws.update raises (the API refuses the request): nothing is written.  price_map is
\* not read again before the next fetch assigns it, and is dropped here.
WriteRaises ==
    /\ calls' = <<>>
    /\ pc = "write"
    /\ pc' = "except"
    /\ exc' = "update"
    /\ price_map' = EmptyMap
    /\ UNCHANGED <<env, sheetVars, k, page, prices, openPages, failed, lastTexts, navigated,
                   browserVars, idx, written, errored, done, parseVars>>

\* No try around the per-product pipeline: the exception ends update_all.
ProductExceptionPropagates ==
    /\ calls' = <<>>
    /\ pc = "except"
    /\ errored' = errored \cup {idx}
    /\ pc' = "crashed"
    /\ UNCHANGED <<env, sheetVars, fetchVars, browserVars, idx, price_map,
                   written, done, parseVars>>

\* update_all: except Exception as e: print(...); the loop goes on.
ProductException ==
    /\ calls' = <<>>
    /\ pc = "except"
    /\ errored' = errored \cup {idx}
    /\ idx' = idx + 1
    /\ pc' = LoopPc(idx + 1)
    /\ exc' = "none"
    /\ UNCHANGED <<env, sheetVars, k, page, prices, openPages, failed, lastTexts, navigated,
                   browserVars, price_map, written, done, parseVars>>

\* update_all: await context.close() (closes the pages of the context)
CloseContext ==
    /\ calls' = <<>>
    /\ pc = "close_context"
    /\ contextOpen' = FALSE
    /\ openPages' = {}
    /\ pc' = "close_browser"
    /\ UNCHANGED <<env, sheetVars, k, page, prices, exc, failed, lastTexts,
                   navigated, browserOpen, loopVars, done, parseVars>>

\* update_all: await browser.close()
CloseBrowser ==
    /\ calls' = <<>>
    /\ pc = "close_browser"
    /\ browserOpen' = FALSE
    /\ pc' = "print_done"
    /\ UNCHANGED <<env, sheetVars, fetchVars, contextOpen, loopVars, done,
                   parseVars>>

\* update_all: print("Sheet updated successfully.")
PrintDone ==
    /\ calls' = <<>>
    /\ pc = "print_done"
    /\ done' = TRUE
    /\ pc' = "done"
    /\ UNCHANGED <<env, sheetVars, fetchVars, browserVars, loopVars, parseVars>>

Next ==
    \/ Main
    \/ GetSheetClient
    \/ OpenOrCreatePricelist
    \/ EnsureProducts
    \/ LaunchBrowser
    \/ NewPage
    \/ NewPageRaises
    \/ SearchPrice
    \/ Delay
    \/ DelayRaises
    \/ ClosePage
    \/ WritePricesBlock
    \/ WriteRaises
    \/ ProductException
    \/ CloseContext
    \/ CloseBrowser
    \/ PrintDone

Spec == Init /\ [][Next]_vars

\* ---------------------------------------------------------------- the normalizer on price texts
\* A price text is written from a number with comma thousands separators (a first group,
\* then groups of three digits, then perhaps a fraction), a currency token in some case,
\* on either side of the number, with or without white space between them.
FirstGroups == {1, 12}
LaterGroups == {0, 5, 500}
Fractions == {None, Some(0), Some(5)}
TokenCases == {"upper", "lower", "capitalized"}
Separators == {<<>>, <<" ">>, <<"NBSP">>}
RawPrices ==
    [first  : FirstGroups,
     groups : UNION {[1..n -> LaterGroups] : n \in 1..MaxGroups},
     frac   : Fractions,
     token  : 1..Len(CURRENCY_TOKENS),
     tcase  : TokenCases,
     sep    : Separators,
     side   : {"before", "after"}]

RECURSIVE IntToDigits(_)
IntToDigits(n) ==
    IF n < 10 THEN <<Digits[n + 1]>> ELSE IntToDigits(n \div 10) \o <<Digits[(n % 10) + 1]>>
RECURSIVE ZeroPad(_, _)
ZeroPad(ds, w) == IF Len(ds) >= w THEN ds ELSE ZeroPad(<<"0">> \o ds, w)

RECURSIVE WriteGroups(_)
WriteGroups(gs) ==
    IF gs = <<>> THEN <<>>
    ELSE <<",">> \o ZeroPad(IntToDigits(Head(gs)), 3) \o WriteGroups(Tail(gs))

Lower(c) ==
    IF \E i \in 1..Len(UpperLetters) : UpperLetters[i] = c
    THEN LowerLetters[CHOOSE i \in 1..Len(UpperLetters) : UpperLetters[i] = c]
    ELSE c
WriteToken(tok, tcase) ==
    [i \in 1..Len(tok) |->
        IF tcase = "upper" \/ (tcase = "capitalized" /\ i = 1) THEN tok[i] ELSE Lower(tok[i])]

WriteNumber(r) ==
    IntToDigits(r.first) \o WriteGroups(r.groups)
        \o (IF r.frac = None THEN <<>> ELSE <<".">> \o ZeroPad(IntToDigits(r.frac[1]), FracDigits))

WriteText(r) ==
    IF r.side = "after"
    THEN WriteNumber(r) \o r.sep \o WriteToken(CURRENCY_TOKENS[r.token], r.tcase)
    ELSE WriteToken(CURRENCY_TOKENS[r.token], r.tcase) \o r.sep \o WriteNumber(r)

\* The number the text is written from, in units of 10^-FracDigits.
RECURSIVE GroupsValue(_, _)
GroupsValue(acc, gs) ==
    IF gs = <<>> THEN acc ELSE GroupsValue(acc * 1000 + Head(gs), Tail(gs))
NumberValue(r) ==
    GroupsValue(r.first, r.groups) * Scale + (IF r.frac = None THEN 0 ELSE r.frac[1])

InitParse ==
    /\ RunInit("absent", [exists |-> FALSE, sheet |-> <<>>])
    /\ raw \in RawPrices
    /\ text = WriteText(raw)
    /\ parsed = None
    /\ ppc = "text"

\* parse_price_number(text)
ParsePriceNumber ==
    /\ ppc = "text"
    /\ parsed' = parse_price_number(text)
    /\ ppc' = "parsed"
    /\ UNCHANGED <<runVars, raw, text>>

NextParse == ParsePriceNumber

SpecParse == InitParse /\ [][NextParse]_vars

\* ================================================================ properties
StoreIdx == 1..Len(STORE_COLUMNS)
StoreCol(i) == 1 + i
CheapestStoreCol == 1 + Len(STORE_COLUMNS) + 1
CheapestPriceCol == 1 + Len(STORE_COLUMNS) + 2
CellAt(sh, r, c) == IF r >= 1 /\ r <= Len(sh) THEN sh[r][c] ELSE Blank
RowAt(sh, r) == IF r >= 1 /\ r <= Len(sh) THEN sh[r] ELSE BlankRow
LoopRows == 2..(Len(products) + 1)
\* write_prices_block has just returned: its row and its price map.
JustWritten == calls = <<"update">>
WrittenRow == idx - 1

\* C1: the cheapest price written is the least of the store prices that are not missing,
\* the cheapest store written is the first store of STORE_COLUMNS holding that price, and
\* both are blank when every store price is missing.
Thm_C1_Cheapest ==
    JustWritten =>
        LET present == {i \in StoreIdx : Get(price_map, STORE_COLUMNS[i]) # None}
            P(i)    == price_map[STORE_COLUMNS[i]][1]
            store   == CellAt(sheet, WrittenRow, CheapestStoreCol)
            price   == CellAt(sheet, WrittenRow, CheapestPriceCol)
        IN  IF present = {}
            THEN store = Blank /\ price = Blank
            ELSE \E i \in present :
                    /\ store = Str(STORE_COLUMNS[i])
                    /\ price = Num(P(i))
                    /\ \A j \in present : P(i) <= P(j) /\ (P(j) = P(i) => i <= j)

\* A row was written from a map in which the first two stores tie for the least price.
Wit_C1_Tie ==
    /\ JustWritten
    /\ Get(price_map, STORE_COLUMNS[1]) # None
    /\ Get(price_map, STORE_COLUMNS[1]) = Get(price_map, STORE_COLUMNS[2])
    /\ CellAt(sheet, WrittenRow, CheapestStoreCol) = Str(STORE_COLUMNS[1])

\* C2: an exception in a product's pipeline does not end the run: update_all catches it
\* and goes on to the next product (or to the end after the last one) without writing,
\* the row of that product keeps the cells it had when the loop began, every product
\* after it is processed, and at the completion every product was either written or
\* skipped by an exception.
C2_State ==
    /\ pc # "crashed"
    /\ (pc = "except" => ENABLED ProductException)
    /\ \A r \in errored :
          /\ r \notin written
          /\ RowAt(sheet, r) = RowAt(sheet0, r)
          /\ \A q \in LoopRows : (q > r /\ q < idx) => q \in written \cup errored
    /\ (pc = "done" => done /\ written \cup errored = LoopRows)
C2_Step ==
    pc = "except" =>
        /\ errored' = errored \cup {idx}
        /\ idx' = idx + 1
        /\ pc' = IF idx < Len(products) + 1 THEN "new_page" ELSE "close_context"
        /\ sheet' = sheet /\ written' = written
Thm_C2_ProductExceptionIsolated == []C2_State /\ [][C2_Step]_vars

\* The run completed although the first product raised; its priced row is as it was and
\* the next row was written.
Wit_C2_SkippedThenWritten ==
    /\ pc = "done"
    /\ 2 \in errored
    /\ 3 \in written
    /\ sheet0 = Populated
    /\ RowAt(sheet, 2) = RowAt(Populated, 2)
    /\ RowAt(sheet, 3) # RowAt(Populated, 3)

\* C3: an exception while an adapter is queried gives that seller no price and nothing
\* else: the prices of the other sellers stay, no such exception propagates, the fetch
\* goes on to the delay and the next adapter, and a fetch that returns has queried every
\* adapter.
C3_State ==
    /\ \A s \in failed : s \in DOMAIN prices /\ prices[s] = None
    /\ exc \notin Faults
    /\ pc # "crashed"
    /\ (pc = "search_price" => DOMAIN prices = {ADAPTERS[i] : i \in 1..(k - 1)})
    /\ (pc = "delay" => DOMAIN prices = {ADAPTERS[i] : i \in 1..k})
    /\ (pc = "finally" /\ exc = "none" =>
            DOMAIN prices = {ADAPTERS[i] : i \in 1..Len(ADAPTERS)})
C3_Step ==
    pc = "search_price" =>
        /\ pc' = "delay"
        /\ k' = k /\ idx' = idx /\ openPages' = openPages
        /\ \A s \in DOMAIN prices : s \in DOMAIN prices' /\ prices'[s] = prices[s]
Thm_C3_AdapterFailureIsolated == []C3_State /\ [][C3_Step]_vars

\* The first adapter failed, the second was still queried and found a price, and the
\* fetch is returning normally.
Wit_C3_LaterAdapterQueried ==
    /\ pc = "finally"
    /\ exc = "none"
    /\ ADAPTERS[1] \in failed
    /\ Get(prices, ADAPTERS[1]) = None
    /\ Get(prices, ADAPTERS[2]) # None

\* C4: open_or_create_pricelist, on a first row that is not ALL_COLUMNS (an absent or new
\* sheet included), clears the worksheet and writes the header once, leaving the header
\* row alone; on a first row that is ALL_COLUMNS it writes nothing.
C4_Step ==
    pc = "open_or_create" =>
        IF row_values(sheet, 1) # ALL_COLUMNS
        THEN /\ calls' = <<"clear", "append_row">>
             /\ Len(sheet') = 1
             /\ \A c \in 1..Width :
                   sheet'[1][c] = IF c <= Len(ALL_COLUMNS) THEN Str(ALL_COLUMNS[c]) ELSE Blank
        ELSE /\ calls' = <<>>
             /\ sheet' = sheet
Thm_C4_HeaderReset == [][C4_Step]_vars

\* A sheet with data under a header of one column too many was reset to the header.
Wit_C4_Reset ==
    /\ pc = "ensure_products"
    /\ sheet0 = Widened
    /\ calls = <<"clear", "append_row">>
    /\ Len(sheet) = 1
    /\ row_values(sheet, 1) = ALL_COLUMNS

\* C5: ensure_products writes nothing and returns the products of column 1 in row order
\* when that column holds any; otherwise it appends the catalog once, TVs then phones
\* then air conditioners; run again at any later point it writes nothing and leaves the
\* product column as the first run left it.
ProductRowsOf(sh) == {r \in 2..Len(sh) : sh[r][1] # Blank}
LastProductRow(sh) == CHOOSE r \in ProductRowsOf(sh) : \A q \in ProductRowsOf(sh) : q <= r
ProductColumn(sh) == [r \in 1..Len(sh) |-> sh[r][1]]
Thm_C5_EnsureProductsIdempotent ==
    /\ pc = "launch" =>
          IF ProductRowsOf(sheet0) # {}
          THEN /\ calls = <<>>
               /\ sheet = sheet0
               /\ Len(products) = LastProductRow(sheet0) - 1
               /\ \A i \in 1..Len(products) : products[i] = Display(sheet0[i + 1][1])
          ELSE /\ calls = <<"append_rows">>
               /\ products = default_tv_products \o default_phone_products \o default_ac_products
               /\ Len(sheet) = Len(sheet0) + Len(products)
               /\ \A r \in 1..Len(sheet0) : sheet[r] = sheet0[r]
               /\ \A i \in 1..Len(products) :
                     sheet[Len(sheet0) + i] = RowOf(<<Str(products[i])>>)
    /\ pc \notin {"main", "get_sheet_client", "fatal", "open_or_create", "ensure_products"} =>
          /\ ensure_products(sheet).calls = <<>>
          /\ ensure_products(sheet).sheet = sheet
          /\ pc # "launch" => ProductColumn(ensure_products(sheet).sheet) = ProductColumn(sheet0)

\* ensure_products met two products of an earlier run and returned them as they stand.
Wit_C5_Reused ==
    /\ pc = "launch"
    /\ sheet0 = Populated
    /\ calls = <<>>
    /\ products = <<"Tornado 43 inch Smart TV", "Apple iPhone 13 128GB">>

\* C6: with no credentials file (the variable unset and no fallback file, or a variable
\* that names no file) the run ends in the fatal error of get_sheet_client with nothing
\* done: no spreadsheet opened or created, no worksheet call, no browser, context or
\* page, no navigation, no completion message.
C6_State ==
    env \in {"absent", "invalid"} =>
        /\ pc \in {"main", "get_sheet_client", "fatal"}
        /\ ~opened /\ calls = <<>> /\ written = {}
        /\ ~browserOpen /\ ~contextOpen /\ openPages = {}
        /\ ~navigated /\ ~done
C6_Step ==
    /\ (pc = "get_sheet_client" /\ env \in {"absent", "invalid"} => pc' = "fatal")
    /\ (env' \in {"absent", "invalid"} => sheet' = sheet /\ sheetExists' = sheetExists)
    /\ pc # "fatal"
Thm_C6_MissingCredentialsAbort == []C6_State /\ [][C6_Step]_vars

\* The variable names a file that does not exist: the run is over, the priced sheet of
\* an earlier run untouched.
Wit_C6_Fatal ==
    /\ pc = "fatal"
    /\ env = "invalid"
    /\ sheet = Populated
    /\ ~opened /\ ~done

\* C7: at most one page is open; while a product's adapters run it is the page opened
\* for that product; it is closed when fetch_prices_for_product ends, by return or by
\* exception, so none is open between products or at the completion message.
Thm_C7_OnePage ==
    /\ Cardinality(openPages) <= 1
    /\ (pc \in {"search_price", "delay", "finally"} => page = idx /\ openPages = {idx})
    /\ (pc \notin {"search_price", "delay", "finally"} => openPages = {})

\* The delay between adapters raised, and the page is closed when update_all catches it.
Wit_C7_ClosedAfterException ==
    /\ pc = "except"
    /\ exc = "wait_for_timeout"
    /\ navigated
    /\ openPages = {}

\* C8: write_prices_block is one range update of the product's own row, columns 2 to
\* 1 + len(STORE_COLUMNS) + len(SUMMARY_COLUMNS): the store prices in registry order
\* (blank for a missing one), then the cheapest store and price; column 1, the header
\* and every other row stay as they were.
C8_Step ==
    written' # written =>
        /\ calls' = <<"update">>
        /\ written' = written \cup {idx}
        /\ idx >= 2 /\ idx <= Len(sheet)
        /\ fromSheet => Display(sheet[idx][1]) = products[idx - 1]
        /\ Len(sheet') = Len(sheet)
        /\ \A r \in 1..Len(sheet) : r # idx => sheet'[r] = sheet[r]
        /\ sheet'[idx][1] = sheet[idx][1]
        /\ \A c \in (CheapestPriceCol + 1)..Width : sheet'[idx][c] = sheet[idx][c]
        /\ \A i \in StoreIdx :
              sheet'[idx][StoreCol(i)] =
                  IF Get(price_map, STORE_COLUMNS[i]) = None THEN Blank
                  ELSE Num(price_map[STORE_COLUMNS[i]][1])
        /\ sheet'[idx][CheapestStoreCol].kind \in
              {IF \A i \in StoreIdx : Get(price_map, STORE_COLUMNS[i]) = None
               THEN "blank" ELSE "str"}
        /\ sheet'[idx][CheapestPriceCol].kind \in
              {IF \A i \in StoreIdx : Get(price_map, STORE_COLUMNS[i]) = None
               THEN "blank" ELSE "num"}
Thm_C8_BlockWrite == [][C8_Step]_vars

\* Row 3 of a priced sheet was rewritten: its first store now blank, its last store
\* priced, its product and row 2 as before.
Wit_C8_RowRewritten ==
    /\ JustWritten
    /\ fromSheet
    /\ WrittenRow = 3
    /\ sheet0 = Populated
    /\ sheet[3][StoreCol(1)] = Blank
    /\ sheet[3][StoreCol(Len(STORE_COLUMNS))].kind = "num"
    /\ sheet[3][1] = Populated[3][1]
    /\ sheet[2] = Populated[2]

\* C9: search_price returns the least of the candidate prices that parse to a positive
\* number, or None when there is none; so every price it returns and every store price
\* and cheapest price written is missing or positive.
PositiveOrBlank(cell) == cell = Blank \/ (cell.kind = "num" /\ cell.num > 0)
Thm_C9_PositiveMinimum ==
    /\ (pc = "delay" /\ ADAPTERS[k] \notin failed) =>
          LET vals == {parse_price_number(lastTexts[i])[1] :
                          i \in {j \in 1..Len(lastTexts) :
                                    /\ parse_price_number(lastTexts[j]) # None
                                    /\ parse_price_number(lastTexts[j])[1] > 0}}
          IN  IF vals = {} THEN prices[ADAPTERS[k]] = None
              ELSE /\ prices[ADAPTERS[k]] # None
                   /\ prices[ADAPTERS[k]][1] \in vals
                   /\ \A v \in vals : prices[ADAPTERS[k]][1] <= v
    /\ \A s \in DOMAIN prices : prices[s] = None \/ prices[s][1] > 0
    /\ \A s \in DOMAIN price_map : price_map[s] = None \/ price_map[s][1] > 0
    /\ \A r \in written :
          /\ \A i \in StoreIdx : PositiveOrBlank(CellAt(sheet, r, StoreCol(i)))
          /\ PositiveOrBlank(CellAt(sheet, r, CheapestPriceCol))

\* An adapter met "2 EGP", "0" and "1" and returned 1, after a row was written with a
\* positive price.
Wit_C9_LeastPositive ==
    /\ pc = "delay"
    /\ lastTexts = << <<"2", " ", "E", "G", "P">>, <<"0">>, <<"1">> >>
    /\ prices[ADAPTERS[k]] = Some(Scale)
    /\ \E r \in written : CellAt(sheet, r, CheapestPriceCol).kind = "num"

\* C10: a text written from a number with comma thousands separators and a known
\* currency token, on either side and in any case, with or without white space, parses
\* to that number.
Thm_C10_ParseThousands == ppc = "parsed" => parsed = Some(NumberValue(raw))

\* "12,500 EGP" parsed to 12500.
Wit_C10_Example ==
    /\ ppc = "parsed"
    /\ text = <<"1", "2", ",", "5", "0", "0", " ", "E", "G", "P">>
    /\ parsed = Some(12500 * Scale)

====
